---------------------------- MODULE Spec2Model ----------------------------
(***************************************************************************)
(* Model of core/src/services/huggingface/error.rs: parse_error, which     *)
(* turns a failed HTTP response of the Huggingface backend into an         *)
(* opendal Error (kind, message, context, temporary flag).                 *)
(*                                                                         *)
(* A response body is a sequence of bytes.  A byte is written as a string: *)
(* an ASCII byte as its character, and "LF" (0x0A), "C3", "A9", "FF" for   *)
(* the bytes that have no printable ASCII form.  A message is a sequence   *)
(* of characters (Unicode scalar values): an ASCII character as itself,    *)
(* "LF" and "CR" for the two control characters, "U+00E9" for the          *)
(* character encoded by C3 A9 and "U+FFFD" for the replacement character.  *)
(***************************************************************************)
EXTENDS Integers, Sequences, FiniteSets, TLC

\* ------------------------------------------------------------------ bounds

\* Longest error string (in source units) of the generated payload bodies.
MaxStrLen == 2
\* Longest body drawn from all byte sequences.
MaxRawLen == 1
\* Statuses 4xx and 5xx are drawn with their last two digits in 0..MaxMinor.
MaxMinor == 29

\* ------------------------------------------------------- bytes, characters

DQ == "\""
BS == "\\"

\* The bytes a body is made of.
Bytes ==
    {"{", "}", "[", "]", ":", ",", DQ, BS, "e", "r", "o", "n", "1", " ",
     "LF", "C3", "A9", "FF"}

RECURSIVE SeqsUpTo(_, _)
SeqsUpTo(S, n) ==
    IF n = 0 THEN {<<>>}
    ELSE LET shorter == SeqsUpTo(S, n - 1)
         IN  shorter \cup {Append(s, x) : s \in shorter, x \in S}

RECURSIVE Concat(_)
\* The concatenation of a sequence of sequences.
Concat(ss) == IF ss = <<>> THEN <<>> ELSE Head(ss) \o Concat(Tail(ss))

\* ----------------------------------------------- String::from_utf8_lossy

RECURSIVE from_utf8_lossy(_)
\* Each maximal invalid byte sequence becomes one U+FFFD; in this alphabet
\* the only multi-byte character is C3 A9, so a C3 without its A9, a lone A9
\* and an FF are each one invalid sequence of one byte.
from_utf8_lossy(bs) ==
    IF bs = <<>> THEN <<>>
    ELSE IF Head(bs) = "C3" /\ Len(bs) >= 2 /\ bs[2] = "A9"
         THEN <<"U+00E9">> \o from_utf8_lossy(SubSeq(bs, 3, Len(bs)))
    ELSE IF Head(bs) \in {"C3", "A9", "FF"}
         THEN <<"U+FFFD">> \o from_utf8_lossy(Tail(bs))
    ELSE <<Head(bs)>> \o from_utf8_lossy(Tail(bs))

RECURSIVE is_utf8(_)
\* str::from_utf8 succeeds.
is_utf8(bs) ==
    IF bs = <<>> THEN TRUE
    ELSE IF Head(bs) = "C3" /\ Len(bs) >= 2 /\ bs[2] = "A9"
         THEN is_utf8(SubSeq(bs, 3, Len(bs)))
    ELSE IF Head(bs) \in {"C3", "A9", "FF"} THEN FALSE
    ELSE is_utf8(Tail(bs))

\* ------------------------------------------------ <str as Debug>::fmt

\* char::escape_debug as str's Debug applies it: the quote, the backslash
\* and the control characters are escaped, the rest is printed as it is.
escape_debug(c) ==
    CASE c = DQ   -> <<BS, DQ>>
      [] c = BS   -> <<BS, BS>>
      [] c = "LF" -> <<BS, "n">>
      [] c = "CR" -> <<BS, "r">>
      [] OTHER    -> <<c>>

\* format!("\"{}\"", s): the characters between quotes, not escaped.
fmt_display_quoted(s) == <<DQ>> \o s \o <<DQ>>

\* format!("{:?}", s) for a String s: the escaped characters between quotes.
fmt_debug_str(s) ==
    <<DQ>> \o Concat([i \in 1..Len(s) |-> escape_debug(s[i])]) \o <<DQ>>

\* str::replace('\n', " ")
replace_newline(s) == [i \in 1..Len(s) |-> IF s[i] = "LF" THEN " " ELSE s[i]]

\* The characters of an ASCII literal of the source.
HuggingfaceErrorName ==
    <<"H", "u", "g", "g", "i", "n", "g", "f", "a", "c", "e",
      "E", "r", "r", "o", "r">>

\* impl Debug for HuggingfaceError: debug_struct("HuggingfaceError") with the
\* one field "message", the error string with its newlines replaced by
\* spaces.  parse_error does not call it.
HuggingfaceError_fmt(hf_error) ==
    HuggingfaceErrorName \o <<" ", "{", " ">>
    \o <<"m", "e", "s", "s", "a", "g", "e", ":", " ">>
    \o fmt_debug_str(replace_newline(hf_error.error))
    \o <<" ", "}">>

\* --------------------------- serde_json::from_slice::<HuggingfaceError>

\* A parse result: the position after what was read and the value read, or
\* the error code of the failure (serde_json's ErrorCode, or serde's message).
Ok(pos, val) == [ok |-> TRUE, pos |-> pos, val |-> val, err |-> "none"]
Err(code) == [ok |-> FALSE, pos |-> 0, val |-> <<>>, err |-> code]

\* The byte at position i, "EOF" past the end.
Peek(bs, i) == IF i <= Len(bs) THEN bs[i] ELSE "EOF"

RECURSIVE parse_whitespace(_, _)
\* The first position from i on that holds no whitespace.
parse_whitespace(bs, i) ==
    IF i <= Len(bs) /\ bs[i] \in {" ", "LF"}
    THEN parse_whitespace(bs, i + 1)
    ELSE i

\* The escapes this alphabet can spell, and the byte each stands for.
Escapes == {DQ, BS, "n", "r"}
parse_escape(b) ==
    CASE b = DQ  -> DQ
      [] b = BS  -> BS
      [] b = "n" -> "LF"
      [] b = "r" -> "CR"

RECURSIVE parse_str_bytes(_, _, _)
\* Reads a string from position i, the position after its opening quote:
\* the bytes up to the closing quote, with the escapes replaced.
parse_str_bytes(bs, i, scratch) ==
    IF i > Len(bs) THEN Err("EofWhileParsingString")
    ELSE IF bs[i] = DQ THEN Ok(i + 1, scratch)
    ELSE IF bs[i] = BS THEN
        IF i + 1 > Len(bs) THEN Err("EofWhileParsingString")
        ELSE IF bs[i + 1] \in Escapes
             THEN parse_str_bytes(bs, i + 2,
                                  Append(scratch, parse_escape(bs[i + 1])))
        ELSE Err("InvalidEscape")
    ELSE IF bs[i] = "LF" THEN Err("ControlCharacterWhileParsingString")
    ELSE parse_str_bytes(bs, i + 1, Append(scratch, bs[i]))

\* The string must be UTF-8.
as_str(r) ==
    IF ~r.ok THEN r
    ELSE IF is_utf8(r.val) THEN Ok(r.pos, from_utf8_lossy(r.val))
    ELSE Err("InvalidUnicodeCodePoint")

\* SliceRead::parse_str
parse_str(bs, i) == as_str(parse_str_bytes(bs, i, <<>>))

RECURSIVE ignore_str(_, _)
\* SliceRead::ignore_str: as parse_str, but the bytes are not validated.
ignore_str(bs, i) ==
    IF i > Len(bs) THEN Err("EofWhileParsingString")
    ELSE IF bs[i] = DQ THEN Ok(i + 1, <<>>)
    ELSE IF bs[i] = BS THEN
        IF i + 1 > Len(bs) THEN Err("EofWhileParsingString")
        ELSE IF bs[i + 1] \in Escapes THEN ignore_str(bs, i + 2)
        ELSE Err("InvalidEscape")
    ELSE IF bs[i] = "LF" THEN Err("ControlCharacterWhileParsingString")
    ELSE ignore_str(bs, i + 1)

RECURSIVE ignore_digits(_, _)
ignore_digits(bs, i) ==
    IF Peek(bs, i) = "1" THEN ignore_digits(bs, i + 1) ELSE i

\* After the digits that end at j: an optional exponent, which needs a
\* digit of its own.
ignore_exponent(bs, j) ==
    IF Peek(bs, j) = "e"
    THEN IF Peek(bs, j + 1) = "1"
         THEN Ok(ignore_digits(bs, j + 1), <<>>)
         ELSE Err("InvalidNumber")
    ELSE Ok(j, <<>>)

\* A number from its first digit.
ignore_number(bs, i) == ignore_exponent(bs, ignore_digits(bs, i))

RECURSIVE ignore_value(_, _)
RECURSIVE ignore_elements(_, _, _)
RECURSIVE ignore_members(_, _, _)

\* The value that starts at i, where no whitespace is.
ignore_value_at(bs, i) ==
    LET c == Peek(bs, i)
    IN  CASE c = "EOF" -> Err("EofWhileParsingValue")
          [] c = DQ    -> ignore_str(bs, i + 1)
          [] c = "1"   -> ignore_number(bs, i)
          [] c = "["   -> ignore_elements(bs, i + 1, TRUE)
          [] c = "{"   -> ignore_members(bs, i + 1, TRUE)
          [] c = "n"   -> Err("ExpectedSomeIdent")
          [] OTHER     -> Err("ExpectedSomeValue")

\* Deserializer::ignore_value: reads any one JSON value and drops it.
ignore_value(bs, i0) == ignore_value_at(bs, parse_whitespace(bs, i0))

\* After an element of an array, read with result r.
after_element(bs, r) ==
    IF r.ok THEN ignore_elements(bs, r.pos, FALSE) ELSE r

\* The element of an array that starts at j.
ignore_element(bs, j, first) ==
    IF Peek(bs, j) = "]" /\ ~first THEN Err("TrailingComma")
    ELSE after_element(bs, ignore_value(bs, j))

\* The rest of an array, from after its "[" or after one of its elements.
ignore_elements_at(bs, i, first) ==
    LET c == Peek(bs, i)
    IN  IF c = "EOF" THEN Err("EofWhileParsingList")
        ELSE IF c = "]" THEN Ok(i + 1, <<>>)
        ELSE IF ~first /\ c # "," THEN Err("ExpectedListCommaOrEnd")
        ELSE ignore_element(bs,
                            IF first THEN i ELSE parse_whitespace(bs, i + 1),
                            first)

ignore_elements(bs, i0, first) ==
    ignore_elements_at(bs, parse_whitespace(bs, i0), first)

\* After the value of a member of an object, read with result r.
after_member(bs, r) ==
    IF r.ok THEN ignore_members(bs, r.pos, FALSE) ELSE r

\* The colon at j, then the member's value.
ignore_member_value(bs, j) ==
    IF Peek(bs, j) = "EOF" THEN Err("EofWhileParsingObject")
    ELSE IF Peek(bs, j) # ":" THEN Err("ExpectedColon")
    ELSE after_member(bs, ignore_value(bs, j + 1))

\* After the key of a member, read with result key.
after_ignored_key(bs, key) ==
    IF ~key.ok THEN key
    ELSE ignore_member_value(bs, parse_whitespace(bs, key.pos))

\* The member of an object that starts at j.
ignore_member(bs, j, first) ==
    IF Peek(bs, j) = "EOF" THEN Err("EofWhileParsingValue")
    ELSE IF Peek(bs, j) = "}" /\ ~first THEN Err("TrailingComma")
    ELSE IF Peek(bs, j) # DQ THEN Err("KeyMustBeAString")
    ELSE after_ignored_key(bs, ignore_str(bs, j + 1))

\* The rest of an object, from after its "{" or after one of its members.
ignore_members_at(bs, i, first) ==
    LET c == Peek(bs, i)
    IN  IF c = "EOF" THEN Err("EofWhileParsingObject")
        ELSE IF c = "}" THEN Ok(i + 1, <<>>)
        ELSE IF ~first /\ c # "," THEN Err("ExpectedObjectCommaOrEnd")
        ELSE ignore_member(bs,
                           IF first THEN i ELSE parse_whitespace(bs, i + 1),
                           first)

ignore_members(bs, i0, first) ==
    ignore_members_at(bs, parse_whitespace(bs, i0), first)

\* The value that starts at i, where no whitespace is, as a String.
deserialize_string_at(bs, i) ==
    LET c == Peek(bs, i)
    IN  CASE c = "EOF" -> Err("EofWhileParsingValue")
          [] c = DQ    -> parse_str(bs, i + 1)
          [] OTHER     -> Err("invalid type")

\* <String as Deserialize>::deserialize: a JSON string, and nothing else.
deserialize_string(bs, i0) ==
    deserialize_string_at(bs, parse_whitespace(bs, i0))

\* The name of the one field of struct HuggingfaceError.
ErrorField == <<"e", "r", "r", "o", "r">>

\* Option<String>
None == [some |-> FALSE, v |-> <<>>]
Some(v) == [some |-> TRUE, v |-> v]

\* Deserializer::end_seq at j, after the field was read as v: the "]".
end_seq(bs, j, v) ==
    IF Peek(bs, j) = "EOF" THEN Err("EofWhileParsingList")
    ELSE IF Peek(bs, j) = "]" THEN Ok(j + 1, v)
    ELSE IF Peek(bs, j) = "," /\ Peek(bs, parse_whitespace(bs, j + 1)) = "]"
         THEN Err("TrailingComma")
    ELSE Err("TrailingCharacters")

\* After the first element of the array, read with result field0.
after_field0(bs, field0) ==
    IF ~field0.ok THEN field0
    ELSE end_seq(bs, parse_whitespace(bs, field0.pos), field0.val)

\* The first element of the array, at i.
visit_seq_at(bs, i) ==
    LET c == Peek(bs, i)
    IN  CASE c = "EOF" -> Err("EofWhileParsingList")
          [] c = "]"   -> Err("invalid length 0")
          [] OTHER     -> after_field0(bs, deserialize_string_at(bs, i))

\* A deserializer that reads a struct from an object only.
visit_seq_refused(bs, i0) == Err("invalid type")

\* The derived visitor's visit_seq, from after the "[": the first element is
\* the field error, and Deserializer::end_seq then wants the "]".
visit_seq(bs, i0) == visit_seq_at(bs, parse_whitespace(bs, i0))

RECURSIVE visit_map(_, _, _, _)

\* After the value of a member, read with result value.
after_value(bs, field0, isField, value) ==
    IF ~value.ok THEN value
    ELSE visit_map(bs, value.pos, FALSE,
                   IF isField THEN Some(value.val) ELSE field0)

\* The colon at j, then the member's value: the field error as a String,
\* any other member's value ignored.
visit_value(bs, field0, isField, j) ==
    IF Peek(bs, j) = "EOF" THEN Err("EofWhileParsingObject")
    ELSE IF Peek(bs, j) # ":" THEN Err("ExpectedColon")
    ELSE after_value(bs, field0, isField,
                     IF isField THEN deserialize_string(bs, j + 1)
                     ELSE ignore_value(bs, j + 1))

\* After the key of a member, read with result key: the field error may
\* come once.
after_key(bs, field0, key) ==
    IF ~key.ok THEN key
    ELSE IF key.val = ErrorField /\ field0.some THEN Err("duplicate field")
    ELSE visit_value(bs, field0, key.val = ErrorField,
                     parse_whitespace(bs, key.pos))

\* The member of the object that starts at j.
visit_member(bs, field0, j, first) ==
    IF Peek(bs, j) = "EOF" THEN Err("EofWhileParsingValue")
    ELSE IF Peek(bs, j) = "}" /\ ~first THEN Err("TrailingComma")
    ELSE IF Peek(bs, j) # DQ THEN Err("KeyMustBeAString")
    ELSE after_key(bs, field0, parse_str(bs, j + 1))

visit_map_at(bs, i, first, field0) ==
    LET c == Peek(bs, i)
    IN  IF c = "EOF" THEN Err("EofWhileParsingObject")
        ELSE IF c = "}"
             THEN IF field0.some THEN Ok(i + 1, field0.v)
                  ELSE Err("missing field")
        ELSE IF ~first /\ c # "," THEN Err("ExpectedObjectCommaOrEnd")
        ELSE visit_member(bs, field0,
                          IF first THEN i ELSE parse_whitespace(bs, i + 1),
                          first)

\* The derived visitor's visit_map, from after the "{" or after a member:
\* a key "error" reads the field (once), any other key's value is ignored,
\* and at the "}" the field must have been read.
visit_map(bs, i0, first, field0) ==
    visit_map_at(bs, parse_whitespace(bs, i0), first, field0)

deserialize_struct_at(bs, i) ==
    LET c == Peek(bs, i)
    IN  CASE c = "EOF" -> Err("EofWhileParsingValue")
          [] c = "["   -> visit_seq(bs, i + 1)
          [] c = "{"   -> visit_map(bs, i + 1, TRUE, None)
          [] OTHER     -> Err("invalid type")

\* Deserializer::deserialize_struct: serde_json reads a struct from an
\* object, by field name, or from an array, by field position.
deserialize_struct(bs, i0) ==
    deserialize_struct_at(bs, parse_whitespace(bs, i0))

\* Deserializer::end after the struct was read with result r: only
\* whitespace may follow.
end(bs, r) ==
    IF ~r.ok THEN r
    ELSE IF parse_whitespace(bs, r.pos) <= Len(bs)
         THEN Err("TrailingCharacters")
    ELSE Ok(r.pos, [error |-> r.val])

\* serde_json::from_slice::<HuggingfaceError>
from_slice(bs) == end(bs, deserialize_struct(bs, 1))

\* serde_json::Error's text, kept as one unit: parse_error drops it.
error_detail(r) == <<r.err>>

\* ------------------------------------------------------------ opendal Error

\* No error value yet.
NoError ==
    [kind |-> "none", message |-> <<>>, temporary |-> FALSE, context |-> <<>>]

\* Error::new(kind, message): permanent, with no context.
Error_new(kind, message) ==
    [kind |-> kind, message |-> message, temporary |-> FALSE,
     context |-> <<>>]

\* Error::set_temporary
set_temporary(e) == [e EXCEPT !.temporary = TRUE]

\* with_error_response_context(err, parts): the response's parts are added
\* to the error's context under the key "response".
with_error_response_context(e, parts) ==
    [e EXCEPT !.context = Append(@, <<"response", parts>>)]

\* -------------------------------------------------------------- parse_error

NOT_FOUND == 404
UNAUTHORIZED == 401
FORBIDDEN == 403
PRECONDITION_FAILED == 412
INTERNAL_SERVER_ERROR == 500
BAD_GATEWAY == 502
SERVICE_UNAVAILABLE == 503
GATEWAY_TIMEOUT == 504

\* The match without FORBIDDEN in its second arm.
match_status_no_forbidden(status) ==
    CASE status = NOT_FOUND ->
            [kind |-> "NotFound", retryable |-> FALSE]
      [] status = UNAUTHORIZED ->
            [kind |-> "PermissionDenied", retryable |-> FALSE]
      [] status = PRECONDITION_FAILED ->
            [kind |-> "ConditionNotMatch", retryable |-> FALSE]
      [] status \in {INTERNAL_SERVER_ERROR, BAD_GATEWAY,
                     SERVICE_UNAVAILABLE, GATEWAY_TIMEOUT} ->
            [kind |-> "Unexpected", retryable |-> TRUE]
      [] OTHER ->
            [kind |-> "Unexpected", retryable |-> FALSE]

\* The match with the third arm's flag set.
match_status_412_retryable(status) ==
    CASE status = NOT_FOUND ->
            [kind |-> "NotFound", retryable |-> FALSE]
      [] status \in {UNAUTHORIZED, FORBIDDEN} ->
            [kind |-> "PermissionDenied", retryable |-> FALSE]
      [] status = PRECONDITION_FAILED ->
            [kind |-> "ConditionNotMatch", retryable |-> TRUE]
      [] status \in {INTERNAL_SERVER_ERROR, BAD_GATEWAY,
                     SERVICE_UNAVAILABLE, GATEWAY_TIMEOUT} ->
            [kind |-> "Unexpected", retryable |-> TRUE]
      [] OTHER ->
            [kind |-> "Unexpected", retryable |-> FALSE]

\* The match with a fourth arm that takes every server error.
match_status_5xx_retryable(status) ==
    CASE status = NOT_FOUND ->
            [kind |-> "NotFound", retryable |-> FALSE]
      [] status \in {UNAUTHORIZED, FORBIDDEN} ->
            [kind |-> "PermissionDenied", retryable |-> FALSE]
      [] status = PRECONDITION_FAILED ->
            [kind |-> "ConditionNotMatch", retryable |-> FALSE]
      [] status \in 500..599 ->
            [kind |-> "Unexpected", retryable |-> TRUE]
      [] OTHER ->
            [kind |-> "Unexpected", retryable |-> FALSE]

\* let (kind, retryable) = match parts.status { ... }
match_status(status) ==
    CASE status = NOT_FOUND ->
            [kind |-> "NotFound", retryable |-> FALSE]
      [] status \in {UNAUTHORIZED, FORBIDDEN} ->
            [kind |-> "PermissionDenied", retryable |-> FALSE]
      [] status = PRECONDITION_FAILED ->
            [kind |-> "ConditionNotMatch", retryable |-> FALSE]
      [] status \in {INTERNAL_SERVER_ERROR, BAD_GATEWAY,
                     SERVICE_UNAVAILABLE, GATEWAY_TIMEOUT} ->
            [kind |-> "Unexpected", retryable |-> TRUE]
      [] OTHER ->
            [kind |-> "Unexpected", retryable |-> FALSE]

\* The arms with an Err arm that decodes strictly: no text for a body that
\* is not UTF-8.
arms_strict(bs, r) ==
    IF r.ok
    THEN [arm |-> "Ok", message |-> fmt_debug_str(r.val.error)]
    ELSE [arm |-> "Err",
          message |-> IF is_utf8(bs) THEN from_utf8_lossy(bs) ELSE <<>>]

\* The arms with an Err arm that reports the parse failure.
arms_detail(bs, r) ==
    IF r.ok
    THEN [arm |-> "Ok", message |-> fmt_debug_str(r.val.error)]
    ELSE [arm |-> "Err", message |-> error_detail(r)]

\* The two arms of the match on the result r of from_slice: the message,
\* with the arm taken.
arms(bs, r) ==
    IF r.ok
    THEN [arm |-> "Ok", message |-> fmt_debug_str(r.val.error)]
    ELSE [arm |-> "Err", message |-> from_utf8_lossy(bs)]

\* let message = match serde_json::from_slice::<HuggingfaceError>(&bs) { ... }
match_from_slice(bs) == arms(bs, from_slice(bs))

\* resp.into_parts(): the parts parse_error reads, the status; the header
\* fields, the version and the extensions are carried along unread.
into_parts(r) == [status |-> r.status]

\* --------------------------------------------------------------- responses

\* The statuses of the responses: two that are no error, and of 4xx and 5xx
\* those whose last two digits are at most MaxMinor.
Statuses == {200, 304} \cup {s \in 400..599 : s % 100 <= MaxMinor}

\* What the string of a JSON string literal is written with: a letter, the
\* escapes \n, \\ and \", and the two bytes of U+00E9.
Units == {<<"n">>, <<BS, "n">>, <<BS, BS>>, <<BS, DQ>>, <<"C3", "A9">>}

\* The character a unit stands for.
UnitChar(u) ==
    CASE u = <<"n">>        -> "n"
      [] u = <<BS, "n">>    -> "LF"
      [] u = <<BS, BS>>     -> BS
      [] u = <<BS, DQ>>     -> DQ
      [] u = <<"C3", "A9">> -> "U+00E9"

\* The strings S of the generated bodies, each as its sequence of units.
UnitSeqs == SeqsUpTo(Units, MaxStrLen)
ShortUnitSeqs == {us \in UnitSeqs : Len(us) <= 1}

\* The string S a sequence of units writes, and its JSON literal.
StrChars(us) == [i \in 1..Len(us) |-> UnitChar(us[i])]
StrLit(us) == <<DQ>> \o Concat(us) \o <<DQ>>

Key == <<DQ>> \o ErrorField \o <<DQ>>
OtherKey == <<DQ, "o", DQ>>

\* {"error":S}
Compact(us) == <<"{">> \o Key \o <<":">> \o StrLit(us) \o <<"}">>
\* The same with the whitespace of the body of test_parse_error.
Spaced(us) ==
    <<"LF", " ", "{", "LF", " ", " ">> \o Key \o <<":", " ">> \o StrLit(us)
    \o <<"LF", " ", "}", "LF", " ">>
\* {"error":S,"o":1}
ExtraAfter(us) ==
    <<"{">> \o Key \o <<":">> \o StrLit(us) \o <<",">> \o OtherKey
    \o <<":", "1", "}">>
\* {"o":["n",{}],"error":S}
ExtraBefore(us) ==
    <<"{">> \o OtherKey \o <<":", "[", DQ, "n", DQ, ",", "{", "}", "]", ",">>
    \o Key \o <<":">> \o StrLit(us) \o <<"}">>
\* [S]
Array1(us) == <<"[">> \o StrLit(us) \o <<"]">>
\* S, a bare JSON string
Bare(us) == StrLit(us)

PayloadBodies == {Compact(us) : us \in UnitSeqs}
                 \cup {Spaced(us) : us \in ShortUnitSeqs}
ExtraBodies == {ExtraAfter(us) : us \in ShortUnitSeqs}
               \cup {ExtraBefore(us) : us \in ShortUnitSeqs}
ArrayBodies == {Array1(us) : us \in ShortUnitSeqs}
BareBodies == {Bare(us) : us \in ShortUnitSeqs}

N == StrLit(<<<<"n">>>>)

\* JSON objects that have no member error.
NoFieldBodies ==
    { <<"{", "}">>,
      <<"{">> \o OtherKey \o <<":">> \o N \o <<"}">>,
      <<"{">> \o OtherKey \o <<":", "{">> \o Key \o <<":">> \o N
        \o <<"}", "}">> }

\* JSON objects whose member error is no string, or is there twice.
BadFieldBodies ==
    { <<"{">> \o Key \o <<":", "1", "}">>,
      <<"{">> \o Key \o <<":", "[">> \o N \o <<"]", "}">>,
      <<"{">> \o Key \o <<":", "{">> \o Key \o <<":">> \o N \o <<"}", "}">>,
      <<"{">> \o Key \o <<":">> \o N \o <<",">> \o Key \o <<":">> \o N
        \o <<"}">> }

\* JSON arrays that do not hold exactly one string, and JSON numbers.
OtherJsonBodies ==
    { <<"[", "]">>,
      <<"[", "1", "]">>,
      <<"[">> \o N \o <<",">> \o N \o <<"]">>,
      <<"[", "[">> \o N \o <<"]", "]">>,
      <<"1">>,
      <<"1", "e", "1">> }

\* Bodies that are no JSON text: the empty body, plain text, invalid UTF-8,
\* and payloads that are cut off, continued or misspelt.
NonJsonBodies ==
    { <<>>,
      <<"o", "o">>,
      <<"o", " ", "C3", "A9", "LF">>,
      <<"FF">>,
      <<"o", "C3", "o", "A9", "FF">>,
      <<"{">> \o Key \o <<":">> \o N,
      <<"{">> \o Key \o <<":">> \o N \o <<"}", "o">>,
      <<"{">> \o Key \o <<":">> \o N \o <<",", "}">>,
      <<"{">> \o Key \o <<":", DQ, "LF", DQ, "}">>,
      <<"{">> \o Key \o <<":", DQ, BS, "o", DQ, "}">>,
      <<"{">> \o Key \o <<":", DQ, "FF", DQ, "}">>,
      <<"{">> \o ErrorField \o <<":">> \o N \o <<"}">>,
      <<"[">> \o N,
      <<"[">> \o N \o <<",", "]">> }

\* Every body of at most MaxRawLen bytes.
RawBodies == SeqsUpTo(Bytes, MaxRawLen)

Bodies ==
    PayloadBodies \cup ExtraBodies \cup ArrayBodies \cup BareBodies
    \cup NoFieldBodies \cup BadFieldBodies \cup OtherJsonBodies
    \cup NonJsonBodies \cup RawBodies

\* ------------------------------------------------------------------- state

VARIABLES
    resp,       \* the response parse_error was called with: status and body
    pc,         \* where the call is
    retryable,  \* parse_error's local of that name
    arm,        \* the arm of the match on from_slice that was taken
    err,        \* parse_error's local err, the error it returns
    ops,        \* the calls that made and changed err, in order
    prev        \* what the caller kept of the call before this one

vars == <<resp, pc, retryable, arm, err, ops, prev>>

NoPrev == [called |-> FALSE, kind |-> "none", temporary |-> FALSE,
           arm |-> "none"]

Init ==
    /\ resp \in [status : Statuses, body : Bodies]
    /\ pc = "start"
    /\ retryable = FALSE
    /\ arm = "none"
    /\ err = NoError
    /\ ops = <<>>
    /\ prev = NoPrev

\* Lines 43-62 with a kind that looks at the body: a body that is no
\* payload makes the error Unexpected.
Construct_kind_from_body ==
    /\ pc = "start"
    /\ LET m == match_status(into_parts(resp).status)
           x == match_from_slice(resp.body)
       IN  /\ retryable' = m.retryable
           /\ arm' = x.arm
           /\ err' = Error_new(IF x.arm = "Ok" THEN m.kind ELSE "Unexpected",
                               x.message)
    /\ ops' = <<"Error::new">>
    /\ pc' = "constructed"
    /\ UNCHANGED <<resp, prev>>

\* Lines 43-62: the status is matched, the message is read from the body and
\* the error is made.
Construct ==
    /\ pc = "start"
    /\ LET m == match_status(into_parts(resp).status)
           x == match_from_slice(resp.body)
       IN  /\ retryable' = m.retryable
           /\ arm' = x.arm
           /\ err' = Error_new(m.kind, x.message)
    /\ ops' = <<"Error::new">>
    /\ pc' = "constructed"
    /\ UNCHANGED <<resp, prev>>

\* Line 64 with the error made again from the body's text.
AttachContext_remade ==
    /\ pc = "constructed"
    /\ err' = with_error_response_context(
                  Error_new(err.kind, from_utf8_lossy(resp.body)),
                  into_parts(resp))
    /\ ops' = Append(ops, "with_error_response_context")
    /\ pc' = "decorated"
    /\ UNCHANGED <<resp, retryable, arm, prev>>

\* Line 64: err = with_error_response_context(err, parts)
AttachContext ==
    /\ pc = "constructed"
    /\ err' = with_error_response_context(err, into_parts(resp))
    /\ ops' = Append(ops, "with_error_response_context")
    /\ pc' = "decorated"
    /\ UNCHANGED <<resp, retryable, arm, prev>>

\* Lines 66-70: if retryable { err = err.set_temporary() }, and err is
\* returned.
Tag ==
    /\ pc = "decorated"
    /\ IF retryable
       THEN /\ err' = set_temporary(err)
            /\ ops' = Append(ops, "set_temporary")
       ELSE UNCHANGED <<err, ops>>
    /\ pc' = "returned"
    /\ UNCHANGED <<resp, retryable, arm, prev>>

\* The caller keeps the kind, the flag and the arm of the error it got and
\* calls parse_error again, with a response of the same status and another
\* body.
Again ==
    /\ pc = "returned"
    /\ \E body \in Bodies \ {resp.body} :
          resp' = [status |-> resp.status, body |-> body]
    /\ prev' = [called |-> TRUE, kind |-> err.kind,
                temporary |-> err.temporary, arm |-> arm]
    /\ pc' = "start"
    /\ retryable' = FALSE
    /\ arm' = "none"
    /\ err' = NoError
    /\ ops' = <<>>

Next == Construct \/ AttachContext \/ Tag \/ Again

Spec == Init /\ [][Next]_vars

\* ============================================================== properties

\* parse_error has returned err.
Returned == pc = "returned"

Range(s) == {s[i] : i \in DOMAIN s}

\* The bodies serde_json decodes into HuggingfaceError, by construction, and
\* the string S each carries.
DecodedBodies == PayloadBodies \cup ExtraBodies \cup ArrayBodies
StringOf ==
    [b \in DecodedBodies |->
        StrChars(CHOOSE us \in UnitSeqs :
                    b \in {Compact(us), Spaced(us), ExtraAfter(us),
                           ExtraBefore(us), Array1(us)})]

\* The generated strings S that hold a newline.
HasNewline(s) == "LF" \in Range(s)

\* Reading a quoted, escaped rendering back: the string between the quotes
\* with each escape replaced by its character; "malformed" marks a text that
\* is no such rendering.
Unescape(c) ==
    CASE c = "n" -> "LF"
      [] c = "r" -> "CR"
      [] c = DQ  -> DQ
      [] c = BS  -> BS
      [] OTHER   -> "malformed"

RECURSIVE Unescaped(_)
Unescaped(cs) ==
    IF cs = <<>> THEN <<>>
    ELSE IF Head(cs) = BS
         THEN IF Len(cs) < 2 THEN <<"malformed">>
              ELSE <<Unescape(cs[2])>> \o Unescaped(SubSeq(cs, 3, Len(cs)))
    ELSE IF Head(cs) \in {DQ, "LF", "CR"}
         THEN <<"malformed">> \o Unescaped(Tail(cs))
    ELSE <<Head(cs)>> \o Unescaped(Tail(cs))

ReadBack(m) ==
    IF Len(m) >= 2 /\ m[1] = DQ /\ m[Len(m)] = DQ
    THEN Unescaped(SubSeq(m, 2, Len(m) - 1))
    ELSE <<"malformed">>

\* C1: the kind of the returned error follows the table: 404 NotFound, 401
\* and 403 PermissionDenied, 412 ConditionNotMatch, every other status
\* Unexpected; it is one of the four kinds.
C1_KindTable ==
    Returned =>
        /\ err.kind \in {"NotFound", "PermissionDenied", "ConditionNotMatch",
                         "Unexpected"}
        /\ err.kind =
              (IF resp.status = 404 THEN "NotFound"
               ELSE IF resp.status \in {401, 403} THEN "PermissionDenied"
               ELSE IF resp.status = 412 THEN "ConditionNotMatch"
               ELSE "Unexpected")

C1_Witness ==
    /\ Returned
    /\ resp.status = 403
    /\ err.kind = "PermissionDenied"

\* C2: the returned error is temporary exactly when the status is 500, 502,
\* 503 or 504; for every other status set_temporary was not applied.
C2_TemporaryIff ==
    Returned =>
        /\ err.temporary <=> resp.status \in {500, 502, 503, 504}
        /\ resp.status \notin {500, 502, 503, 504}
              => "set_temporary" \notin Range(ops)

C2_Witness ==
    /\ Returned
    /\ resp.status = 503
    /\ err.temporary
    /\ "set_temporary" \in Range(ops)

\* C3: two responses with the same status and different bodies give the same
\* kind and the same temporary flag.
C3_StatusOnly ==
    Returned /\ prev.called =>
        /\ err.kind = prev.kind
        /\ err.temporary = prev.temporary

C3_Witness ==
    /\ Returned
    /\ prev.called
    /\ prev.arm = "Ok"
    /\ arm = "Err"
    /\ resp.status = 404
    /\ resp.body = <<"FF">>

\* C4: for a payload body {"error": S} the message is the quoted, escaped
\* rendering of S and of nothing else: read back, it is S.
C4_MessageFromS ==
    Returned /\ resp.body \in PayloadBodies =>
        ReadBack(err.message) = StringOf[resp.body]

C4_Witness ==
    /\ Returned
    /\ resp.body = Compact(<< <<BS, BS>>, <<"n">> >>)
    /\ err.message = <<DQ, BS, BS, "n", DQ>>

\* C5: for a payload body {"error": S} with newlines in S the message shows
\* a single space at each newline of S.
C5_NewlineAsSpace ==
    Returned /\ resp.body \in PayloadBodies
             /\ HasNewline(StringOf[resp.body]) =>
        ReadBack(err.message) = replace_newline(StringOf[resp.body])

\* The bodies that are no JSON text or lack the field error, as C6 reads
\* it: every generated body but the objects that have a member error.
LacksFieldBodies ==
    (NonJsonBodies \cup RawBodies \cup NoFieldBodies \cup OtherJsonBodies
     \cup BareBodies \cup ArrayBodies) \ (PayloadBodies \cup ExtraBodies)

\* The characters a message is made of: the ASCII bytes, the carriage
\* return an escape can give, and the two characters beyond ASCII.
Chars == (Bytes \ {"C3", "A9", "FF"}) \cup {"CR", "U+00E9", "U+FFFD"}

\* The call has an error value: reading the body gave a message, by one of
\* the two arms, and no failure of its own.
HasError ==
    /\ arm \in {"Ok", "Err"}
    /\ err.kind \in {"NotFound", "PermissionDenied", "ConditionNotMatch",
                     "Unexpected"}
    /\ Range(err.message) \subseteq Chars

FallbackBodies == Bodies \ DecodedBodies

FieldOrText ==
    \/ /\ resp.body \in DecodedBodies
       /\ ReadBack(err.message) = StringOf[resp.body]
    \/ err.message = from_utf8_lossy(resp.body)

\* C8 as claimed: the message is the payload's string or the body's text, is
\* never empty and is never the detail of the parse failure.
C8_Original ==
    Returned =>
        /\ FieldOrText
        /\ err.message # <<>>
        /\ err.message # error_detail(from_slice(resp.body))

\* C8, amended: the message is the payload's string or the body's text, is
\* empty exactly for the empty body and is never the detail of the parse
\* failure; the error has a kind.
C8_MessageInvariant ==
    Returned =>
        /\ err.kind # "none"
        /\ FieldOrText
        /\ err.message = <<>> <=> resp.body = <<>>
        /\ err.message # error_detail(from_slice(resp.body))

C8_Witness ==
    /\ Returned
    /\ resp.body = <<>>
    /\ err.message = <<>>
    /\ arm = "Err"

\* The calls that may have made and changed the returned error.
Permanent == <<"Error::new", "with_error_response_context">>
Temporary == Append(Permanent, "set_temporary")

IsPrefix(s, t) == Len(s) <= Len(t) /\ SubSeq(t, 1, Len(s)) = s

\* The returned error is made of the kind and the message computed from the
\* status and the body, by one of the two sequences of calls.
FrameReturned ==
    Returned =>
        /\ ops \in {Permanent, Temporary}
        /\ err.kind = match_status(resp.status).kind
        /\ err.message = match_from_slice(resp.body).message
        /\ Len(err.context) = 1
        /\ err.context[1][2] = into_parts(resp)

\* A step on the error once it is made.
FrameStep ==
    pc \in {"constructed", "decorated"} =>
        /\ err'.kind = err.kind
        /\ err'.message = err.message
        /\ IsPrefix(err.context, err'.context)
        /\ err'.temporary # err.temporary =>
              /\ pc = "decorated"
              /\ err'.temporary
              /\ err'.context = err.context

\* C9: once the error is made, its kind and message stay; the context is
\* only appended to; the flag is set at most once, after the context was
\* attached; the returned error has the kind and the message computed from
\* the status and the body.
C9_Frame == []FrameReturned /\ [][FrameStep]_vars

C9_Witness ==
    /\ Returned
    /\ ops = Temporary
    /\ err.temporary
    /\ err.context = << <<"response", [status |-> 502]>> >>
    /\ err.kind = "Unexpected"
    /\ err.message = <<DQ, "n", DQ>>

\* C10 as claimed: every 5xx status gives a temporary error and every 4xx
\* status a permanent one.
C10_Original ==
    Returned =>
        /\ resp.status \in 500..599 => err.temporary
        /\ resp.status \in 400..499 => ~err.temporary

\* C10, amended: of the 5xx statuses 500, 502, 503 and 504 give a temporary
\* error and the others a permanent one; every 4xx status gives a permanent
\* one.
C10_RetryClasses ==
    Returned =>
        /\ resp.status \in {500, 502, 503, 504} => err.temporary
        /\ resp.status \in (500..599) \ {500, 502, 503, 504}
              => ~err.temporary
        /\ resp.status \in 400..499 => ~err.temporary

C10_Witness ==
    /\ Returned
    /\ resp.status = 501
    /\ ~err.temporary

=============================================================================
